---- MODULE Spec2Model ----
(***************************************************************************)
(* Model of the translation orchestrator of AIAgentTranslator:             *)
(*   core/translation_pipeline.py  TranslationPipeline.translate           *)
(*   core/agent_orchestrator.py    AgentOrchestrator                       *)
(*   agents/*.py                   BaseAgent.execute and the four agents   *)
(*   models/translation_context.py TranslationContext                      *)
(* One run of translate() is modelled as a sequential program (pc) that a  *)
(* second thread may interrupt with request_stop() at any moment.  Result  *)
(* objects live in a heap (a sequence); the context's slots and the        *)
(* orchestrator's locals hold heap indices, 0 standing for None.           *)
(***************************************************************************)
EXTENDS Integers, Sequences, FiniteSets, TLC

\* ------------------------------------------------------------------ bounds
MaxIter == 2
MaxEvents == 3
MaxRegistrations == 3
\* clients in an agent's pool, and client calls followed in one history
MaxClients == 3
MaxPicks == 7
\* loop passes of the runs that reach a third pass
DeepIter == 3

\* --------------------------------------------------------- program constants
DEFAULT_PASS_THRESHOLD == 80
DEFAULT_RETRY_COUNT == 2
MAX_RETRIES == 3
SKIP_SCORE == 90
MINOR_SCORE == 80

\* ------------------------------------------------------------- input domains
Scores == {60, 85, 95}
ExtractedScores == {0, 85}
PassedKeys == {"absent", "true", "false"}
PassThresholds == {DEFAULT_PASS_THRESHOLD}
AgentKeys == {"source_analyzer", "translator", "reviewer", "optimizer"}
AgentSets ==
  { AgentKeys,
    AgentKeys \ {"source_analyzer"},
    AgentKeys \ {"reviewer"},
    AgentKeys \ {"optimizer"},
    AgentKeys \ {"translator"} }
Observers == {"progress_callback", "observer_b", "observer_c"}
BusEvents == { <<"translator", "started">>, <<"translator", "completed">> }

VARIABLES
  mode,            \* options.enable_iteration: "iterative" or "pipeline"
  max_iterations,  \* options.max_iterations -> context.max_iterations
  pass_threshold,  \* Reviewer.pass_threshold
  agents,          \* keys of AgentOrchestrator.agents
  usable_clients,  \* model_config.api_key_list yields at least one client
  stop_requested,  \* AgentOrchestrator._stop_requested
  worker_stop,     \* TranslationWorker._stop_requested
  progress_callbacks, \* AgentOrchestrator.progress_callbacks
  received,        \* per observer, the events its callback was called with
  escaped,         \* an observer's exception left _notify_progress
  busLog,          \* what the registration calls and the observers did
  llm,             \* one agent's client pool and its _call_llm invocation
  pc,              \* position of the run
  exc,             \* exception that left translate(): "none" or its class
  context,         \* TranslationContext
  heap,            \* result objects; a slot holds an index, 0 = None
  events,          \* every _notify_progress(stage, status) in emission order
  current_stage,   \* local of execute_iterative
  iteration,       \* loop variable of execute_iterative
  es,              \* frame of the active execute_single call
  result,          \* value returned by the last execute_single call
  review_local,    \* local review_result of execute_pipeline / execute_iterative
  review_passed,   \* local review_passed of execute_pipeline
  saved_review1_result, \* local of _perform_post_opt_review
  ppr_ret,         \* caller of _perform_post_opt_review
  pipeline_history,\* TranslationPipeline.history (number of entries)
  execs,           \* log of agent.execute calls
  passes,          \* number of loop passes that began their body
  stopAtBoundary,  \* stop flag as it was when the previous stage call returned
  cancelAt         \* Len(events) when a checkpoint raised, -1 before

cfgVars == <<mode, max_iterations, pass_threshold, agents>>
localVars == <<current_stage, iteration, review_local, review_passed,
               saved_review1_result, ppr_ret>>
envVars == <<usable_clients, worker_stop, progress_callbacks, busLog, llm>>
vars == <<mode, max_iterations, pass_threshold, agents, usable_clients,
          worker_stop, progress_callbacks, received, escaped, busLog, llm,
          stop_requested, pc, exc,
          context, heap, events, current_stage, iteration, es, result,
          review_local, review_passed, saved_review1_result, ppr_ret,
          pipeline_history, execs, passes, stopAtBoundary, cancelAt>>

\* ------------------------------------------------------- TranslationContext
NewContext ==
  [ current_stage |-> "init", iteration_count |-> 0,
    analysis_result |-> 0, translation_result |-> 0, review_result |-> 0,
    optimization_result |-> 0, review2_result |-> 0,
    history |-> <<>>, completed_at |-> FALSE, fix_mode |-> "unset" ]

update_stage(c, stage) ==
  [c EXCEPT !.current_stage = stage, !.history = Append(@, stage)]

complete_mut(c) == [c EXCEPT !.completed_at = TRUE]

complete(c) ==
  [c EXCEPT !.completed_at = TRUE, !.current_stage = "completed"]

get_final_translation_mut(c, h) ==
  IF c.optimization_result # 0 THEN h[c.optimization_result].output
  ELSE IF c.translation_result # 0 THEN h[c.translation_result].output
  ELSE 0

\* output 0 is the empty string; any other number names a non-empty text
get_final_translation(c, h) ==
  IF c.optimization_result # 0 /\ h[c.optimization_result].output # 0
    THEN h[c.optimization_result].output
  ELSE IF c.translation_result # 0 /\ h[c.translation_result].output # 0
    THEN h[c.translation_result].output
  ELSE 0

\* --------------------------------------------------------------- AgentResult
\* isReview: the object is a ReviewResult (it has score and passed)
AgentResult(agent, status, output, isReview, score, passed) ==
  [ agent |-> agent, status |-> status, output |-> output,
    isReview |-> isReview, score |-> score, passed |-> passed ]

FailedAgentResult(agent) == AgentResult(agent, "failed", 0, FALSE, 0, FALSE)

\* ------------------------------------------------------------------- agents
Outcome(kind, score, passedKey, empty) ==
  [ kind |-> kind, score |-> score, passedKey |-> passedKey, empty |-> empty ]

\* what the model client and the model's text can do in one process() call
OutcomesFor(agent) ==
  CASE agent = "source_analyzer" ->
         { Outcome(k, 0, "absent", FALSE) : k \in {"json", "malformed", "raise"} }
    [] agent = "translator" ->
         { Outcome(k, 0, "absent", FALSE) : k \in {"text", "raise"} }
    [] agent = "optimizer" ->
         { Outcome("text", 0, "absent", e) : e \in BOOLEAN }
           \cup { Outcome("raise", 0, "absent", FALSE) }
    [] agent = "reviewer" ->
         { Outcome("json", s, p, FALSE) : s \in Scores, p \in PassedKeys }
           \cup { Outcome("malformed", s, "absent", FALSE) : s \in ExtractedScores }
           \cup { Outcome(k, 0, "absent", FALSE) : k \in {"nonobject", "raise"} }

ProcessReturn(c, h, r) ==
  [ raised |-> FALSE, ctx |-> c, heap |-> Append(h, r), rid |-> Len(h) + 1 ]

ProcessRaise(c, h) ==
  [ raised |-> TRUE, ctx |-> c, heap |-> h, rid |-> 0 ]

SourceAnalyzer_process(c, h, o) ==
  LET rid == Len(h) + 1
      r == AgentResult("source_analyzer", "completed", rid, FALSE, 0, FALSE)
  IN  CASE o.kind = "raise" -> ProcessRaise(c, h)
        [] o.kind = "json" ->
             ProcessReturn([c EXCEPT !.analysis_result = rid], h, r)
        [] OTHER -> ProcessReturn(c, h, r)

Translator_process(c, h, o) ==
  LET rid == Len(h) + 1
      r == AgentResult("translator", "completed", rid, FALSE, 0, FALSE)
  IN  IF o.kind = "raise" THEN ProcessRaise(c, h)
      ELSE ProcessReturn([c EXCEPT !.translation_result = rid], h, r)

\* the text a Reviewer.process call puts in front of the model, 0 if none
Reviewer_input(c, h) ==
  IF c.translation_result # 0 THEN h[c.translation_result].output
  ELSE IF c.optimization_result # 0 THEN h[c.optimization_result].output
  ELSE 0

Reviewer_process(c, h, o, threshold) ==
  LET rid == Len(h) + 1
  IN  IF c.translation_result = 0 /\ c.optimization_result = 0
        THEN ProcessReturn(c, h, AgentResult("reviewer", "failed", 0, TRUE, 0, FALSE))
      ELSE CASE o.kind = "raise" -> ProcessRaise(c, h)
        \* json.loads gave a list, a number, a string or null: .get raises
        \* AttributeError, which the except JSONDecodeError does not catch
        [] o.kind = "nonobject" -> ProcessRaise(c, h)
        [] o.kind = "json" ->
             LET passed == CASE o.passedKey = "true" -> TRUE
                             [] o.passedKey = "false" -> FALSE
                             [] OTHER -> o.score >= threshold
                 r == AgentResult("reviewer", "completed", rid, TRUE, o.score, passed)
             IN  ProcessReturn([c EXCEPT !.review_result = rid,
                                         !.iteration_count = @ + 1], h, r)
        [] OTHER ->
             ProcessReturn(c, h, AgentResult("reviewer", "completed", rid, TRUE,
                                             o.score, o.score >= threshold))

\* the text an Optimizer.process call starts from, 0 if none
Optimizer_input(c, h) ==
  IF c.optimization_result # 0 THEN h[c.optimization_result].output
  ELSE IF c.translation_result # 0 THEN h[c.translation_result].output
  ELSE 0

Optimizer_process_mut(c, h, o) ==
  LET rid == Len(h) + 1
  IN  IF c.optimization_result = 0 /\ c.translation_result = 0
        THEN ProcessReturn(c, h, AgentResult("optimizer", "failed", 0, FALSE, 0, FALSE))
      ELSE IF o.kind = "raise"
        THEN ProcessRaise([c EXCEPT !.optimization_result = 0], h)
      ELSE ProcessReturn([c EXCEPT !.optimization_result = rid], h,
             AgentResult("optimizer", "completed", IF o.empty THEN 0 ELSE rid,
                         FALSE, 0, FALSE))

Optimizer_process(c, h, o) ==
  LET rid == Len(h) + 1
  IN  IF c.optimization_result = 0 /\ c.translation_result = 0
        THEN ProcessReturn(c, h, AgentResult("optimizer", "failed", 0, FALSE, 0, FALSE))
      ELSE IF o.kind = "raise" THEN ProcessRaise(c, h)
      ELSE ProcessReturn([c EXCEPT !.optimization_result = rid], h,
             AgentResult("optimizer", "completed", IF o.empty THEN 0 ELSE rid,
                         FALSE, 0, FALSE))

process(agent, c, h, o, threshold) ==
  CASE agent = "source_analyzer" -> SourceAnalyzer_process(c, h, o)
    [] agent = "translator" -> Translator_process(c, h, o)
    [] agent = "reviewer" -> Reviewer_process(c, h, o, threshold)
    [] agent = "optimizer" -> Optimizer_process(c, h, o)

\* BaseAgent.execute: an exception of process() becomes a failed result
execute(agent, c, h, o, threshold) ==
  LET r == process(agent, c, h, o, threshold)
  IN  IF r.raised THEN ProcessReturn(r.ctx, r.heap, FailedAgentResult(agent))
      ELSE r

\* ------------------------------------------------- orchestrator pure helpers
HasFailed_mut(h, rid) == rid = 0

HasFailed(h, rid) == rid = 0 \/ h[rid].status = "failed"

\* review_result.score if hasattr(review_result, 'score') else 0
ScoreOf(h, rid) == IF h[rid].isReview THEN h[rid].score ELSE 0

check_review_passed(h, rid) ==
  IF rid = 0 THEN FALSE
  ELSE IF h[rid].isReview THEN h[rid].passed
  ELSE FALSE

get_review_severity_mut(h, rid) ==
  IF rid = 0 THEN "major"
  ELSE IF ScoreOf(h, rid) >= MINOR_SCORE THEN "major"
  ELSE "minor"

get_review_severity(h, rid) ==
  IF rid = 0 THEN "major"
  ELSE IF ScoreOf(h, rid) >= MINOR_SCORE THEN "minor"
  ELSE "major"

\* _check_stop_requested raises InterruptedError exactly when the flag is set
check_stop_requested(flag) == flag

range_exhausted_mut(it, max) == it >= max - 1

range_exhausted_late(it, max) == it > max

\* range(max_iterations) has no further value
range_exhausted(it, max) == it >= max

\* iteration == max_iterations - 1
is_last_iteration(it, max) == it = max - 1

\* the frame of execute_single; ev0 and allFailed are bookkeeping of the model:
\* the number of events before the call and whether every attempt so far failed
Frame(agent, key, ret) ==
  [ agent |-> agent, key |-> key, attempt |-> 0, ret |-> ret,
    ev0 |-> 0, allFailed |-> TRUE ]

NoFrame == Frame("none", "none", "none")

\* ------------------------------------------------------- construction
\* BaseAgent._create_clients: ValueError when no key yields a client
create_clients_raises(usable) == ~usable

\* _init_agents: an enabled agent whose constructor raises is logged and left
\* out of self.agents; every agent is built from the same model_config
init_agents(enabled, usable) ==
  { a \in enabled : ~create_clients_raises(usable) }

\* ------------------------------------------------------- progress observers
register_progress_callback_mut(cbs, cb) == Append(cbs, cb)

\* if callback not in self.progress_callbacks: append
register_progress_callback(cbs, cb) ==
  IF \E k \in 1..Len(cbs) : cbs[k] = cb THEN cbs ELSE Append(cbs, cb)

clear_progress_callbacks(cbs) == <<>>

callback_error_escapes_mut(raised) == raised

\* try: callback(stage, status, data) / except Exception: logger.warning
\* whether a raising callback ends the loop of _notify_progress
callback_error_escapes(raised) == FALSE

\* position of the last callback one _notify_progress call invokes
LastCalled(cbs, raisers) ==
  LET esc == { k \in 1..Len(cbs) : callback_error_escapes(cbs[k] \in raisers) }
  IN  IF esc = {} THEN Len(cbs)
      ELSE CHOOSE k \in esc : \A j \in esc : k <= j

\* how often one _notify_progress call invokes observer o
Calls(cbs, o, raisers) ==
  Cardinality({ k \in 1..LastCalled(cbs, raisers) : cbs[k] = o })

\* each element of evs n times, in order
Repeat(evs, n) == [ i \in 1..(Len(evs) * n) |-> evs[((i - 1) \div n) + 1] ]

\* _notify_progress for each event of evs in turn, the observers of raisers
\* raising from their callback
notify_progress(cbs, rcv, evs, raisers) ==
  [ received |-> [ o \in DOMAIN rcv |->
                     rcv[o] \o Repeat(evs, Calls(cbs, o, raisers)) ],
    escaped |-> /\ evs # <<>>
                /\ \E k \in 1..Len(cbs) :
                     callback_error_escapes(cbs[k] \in raisers) ]

\* TranslationWorker.run's progress_callback raises InterruptedError once the
\* worker's own flag is set
Raisers == IF worker_stop THEN {"progress_callback"} ELSE {}

NoBusLog == [ registrations |-> 0, duplicate |-> FALSE, raised |-> FALSE ]

\* the pool of an agent outside a _call_llm invocation: n clients, the index
\* current_client_idx, and the log of the client calls made so far
Pool(n) ==
  [ n |-> n, idx |-> 0, phase |-> "idle", attempt |-> 0, start |-> 0,
    log |-> <<>> ]

NoPool == Pool(1)

Init ==
  /\ mode \in {"iterative", "pipeline"}
  /\ max_iterations \in 1..MaxIter
  /\ pass_threshold \in PassThresholds
  /\ agents = {}
  /\ usable_clients \in BOOLEAN
  /\ worker_stop = FALSE
  /\ progress_callbacks = <<>>
  /\ received = [ o \in Observers |-> <<>> ]
  /\ escaped = FALSE
  /\ busLog = NoBusLog
  /\ llm = NoPool
  /\ stop_requested = FALSE
  /\ pc = "new"
  /\ exc = "none"
  /\ context = NewContext
  /\ heap = <<>>
  /\ events = <<>>
  /\ current_stage = "none"
  /\ iteration = 0
  /\ es = NoFrame
  /\ result = 0
  /\ review_local = 0
  /\ review_passed = FALSE
  /\ saved_review1_result = 0
  /\ ppr_ret = "none"
  /\ pipeline_history = 0
  /\ execs = <<>>
  /\ passes = 0
  /\ stopAtBoundary = FALSE
  /\ cancelAt = -1


\* ------------------------------------------------------------ shared pieces
ghostVars == <<execs, passes, stopAtBoundary>>

\* the events this step emitted reach the registered observers
NotifyObservers ==
  LET new == SubSeq(events', Len(events) + 1, Len(events'))
      r == notify_progress(progress_callbacks, received, new, Raisers)
  IN  /\ received' = r.received
      /\ escaped' = (escaped \/ r.escaped)

\* a checkpoint that finds the flag set: InterruptedError unwinds to translate()
Interrupted ==
  /\ pc' = "tr_except"
  /\ cancelAt' = Len(events)
  /\ UNCHANGED <<cfgVars, stop_requested, exc, context, heap, events, localVars,
                 es, result, pipeline_history, ghostVars>>

\* enter execute_single(agent, context, stage_key) and come back at ret
Call(agent, key, ret) ==
  /\ es' = Frame(agent, key, ret)
  /\ pc' = "es_start"

\* AgentOrchestrator.__init__ and _init_agents
InitAgents ==
  /\ pc = "new"
  /\ \E enabled \in AgentSets : agents' = init_agents(enabled, usable_clients)
  /\ pc' = "idle"
  /\ UNCHANGED <<mode, max_iterations, pass_threshold, stop_requested, exc,
                 context, heap, events, localVars, es, result, pipeline_history,
                 ghostVars, cancelAt>>
  /\ UNCHANGED envVars
  /\ NotifyObservers

\* TranslationWorker.request_stop, called from the GUI thread at any moment:
\* it sets the worker's flag, then TranslationPipeline.request_stop and
\* AgentOrchestrator.request_stop set the orchestrator's
RequestStop ==
  /\ pc \notin {"new", "returned", "raised"}
  /\ ~stop_requested
  /\ worker_stop' = TRUE
  /\ stop_requested' = TRUE
  /\ UNCHANGED <<cfgVars, pc, exc, context, heap, events, localVars, es, result,
                 pipeline_history, ghostVars, cancelAt>>
  /\ UNCHANGED <<usable_clients, progress_callbacks, busLog, llm>>
  /\ NotifyObservers

\* ------------------------------------------------ TranslationPipeline.translate
\* the context is built from the options, then the mode's method is entered
TranslateCall ==
  /\ pc = "idle"
  /\ \E text_ok \in BOOLEAN :
       IF ~text_ok
         THEN /\ pc' = "raised"
              /\ exc' = "ValueError"
              /\ UNCHANGED <<context, stopAtBoundary>>
              /\ UNCHANGED progress_callbacks
         ELSE /\ context' = NewContext
              /\ progress_callbacks' =
                   register_progress_callback(
                     clear_progress_callbacks(progress_callbacks),
                     "progress_callback")
              /\ pc' = IF mode = "iterative" THEN "it_start" ELSE "pl_start"
              /\ stopAtBoundary' = stop_requested
              /\ UNCHANGED exc
  /\ UNCHANGED <<cfgVars, stop_requested, heap, events, localVars, es, result,
                 pipeline_history, execs, passes, cancelAt>>
  /\ UNCHANGED <<usable_clients, worker_stop, busLog, llm>>
  /\ NotifyObservers

translate_on_exception_mut(c) == complete(c)

translate_on_exception(c) == update_stage(c, "error")

\* except Exception: context.update_stage('error'); raise
TranslateExcept ==
  /\ pc = "tr_except"
  /\ context' = translate_on_exception(context)
  /\ exc' = "InterruptedError"
  /\ pc' = "raised"
  /\ UNCHANGED <<cfgVars, stop_requested, heap, events, localVars, es, result,
                 pipeline_history, ghostVars, cancelAt>>
  /\ UNCHANGED envVars
  /\ NotifyObservers

\* self.history.append(result_context.to_dict()); return result_context
TranslateReturn ==
  /\ pc = "tr_return"
  /\ pipeline_history' = pipeline_history + 1
  /\ pc' = "returned"
  /\ UNCHANGED <<cfgVars, stop_requested, exc, context, heap, events, localVars,
                 es, result, ghostVars, cancelAt>>
  /\ UNCHANGED envVars
  /\ NotifyObservers

\* MainWindow.start_translation after a cancelled run: a new TranslationWorker
\* (its own flag is clear) calls translate() on the same pipeline; nothing
\* calls reset().  The logs of the previous run are dropped.
TranslateAgain ==
  /\ pc = "raised"
  /\ exc = "InterruptedError"
  /\ worker_stop' = FALSE
  /\ context' = NewContext
  /\ progress_callbacks' =
       register_progress_callback(
         clear_progress_callbacks(progress_callbacks), "progress_callback")
  /\ pc' = IF mode = "iterative" THEN "it_start" ELSE "pl_start"
  /\ exc' = "none"
  /\ heap' = <<>>
  /\ events' = <<>>
  /\ received' = [ o \in Observers |-> <<>> ]
  /\ es' = NoFrame
  /\ result' = 0
  /\ current_stage' = "none"
  /\ iteration' = 0
  /\ review_local' = 0
  /\ review_passed' = FALSE
  /\ saved_review1_result' = 0
  /\ ppr_ret' = "none"
  /\ execs' = <<>>
  /\ passes' = 0
  /\ stopAtBoundary' = stop_requested
  /\ cancelAt' = -1
  /\ UNCHANGED <<cfgVars, stop_requested, usable_clients, busLog, llm,
                 escaped, pipeline_history>>

\* ------------------------------------------------------------ execute_single
\* lines 124-136: a missing agent returns None, else 'started' is announced
ExecuteSingleStart ==
  /\ pc = "es_start"
  /\ IF es.agent \notin agents
       THEN /\ result' = 0
            /\ pc' = es.ret
            /\ stopAtBoundary' = stop_requested
            /\ UNCHANGED <<events, es>>
       ELSE /\ events' = Append(events, <<es.key, "started">>)
            /\ es' = [es EXCEPT !.ev0 = Len(events)]
            /\ pc' = "es_attempt"
            /\ UNCHANGED <<result, stopAtBoundary>>
  /\ UNCHANGED <<cfgVars, stop_requested, exc, context, heap, localVars,
                 pipeline_history, execs, passes, cancelAt>>
  /\ UNCHANGED envVars
  /\ NotifyObservers

\* number of events with the given status among evs[from+1 .. Len(evs)]
CountStatus(evs, from, status) ==
  Cardinality({ k \in (from + 1)..Len(evs) : evs[k][2] = status })

\* one entry of the log per agent.execute call: what ran, on what, and, for
\* the attempt that ends the execute_single call, what the call announced
ExecRecord(frame, c, h, o, r, evs, returned) ==
  [ key |-> frame.key, agent |-> frame.agent, pass |-> passes,
    rid |-> IF r.raised THEN 0 ELSE r.rid,
    outcome |-> o.kind,
    score |-> IF r.raised THEN 0 ELSE ScoreOf(r.heap, r.rid),
    passed |-> IF r.raised THEN FALSE ELSE check_review_passed(r.heap, r.rid),
    failed |-> (r.raised \/ r.heap[r.rid].status = "failed"),
    stopBefore |-> stopAtBoundary,
    fix |-> (c.fix_mode = "true"),
    review_before |-> c.review_result,
    final_before |-> get_final_translation(c, h),
    input |-> CASE frame.agent = "reviewer" -> Reviewer_input(c, h)
                [] frame.agent = "optimizer" -> Optimizer_input(c, h)
                [] OTHER -> 0,
    returned |-> returned,
    attempts |-> frame.attempt + 1,
    allFailed |-> (frame.allFailed /\ (r.raised \/ r.heap[r.rid].status = "failed")),
    nRetrying |-> CountStatus(evs, frame.ev0, "retrying"),
    nFailed |-> CountStatus(evs, frame.ev0, "failed"),
    nCompleted |-> CountStatus(evs, frame.ev0, "completed") ]

\* lines 139-183: one pass of the attempt loop
ExecuteSingleAttempt ==
  /\ pc = "es_attempt"
  /\ \E o \in OutcomesFor(es.agent) :
       LET r == execute(es.agent, context, heap, o, pass_threshold)
       IN  IF ~r.raised
             THEN /\ context' = r.ctx
                  /\ heap' = r.heap
                  /\ events' = Append(events, <<es.key, "completed">>)
                  /\ result' = r.rid
                  /\ pc' = es.ret
                  /\ es' = es
                  /\ execs' = Append(execs, ExecRecord(es, context, heap, o, r,
                                                       events', TRUE))
                  /\ stopAtBoundary' = stop_requested
             ELSE IF es.attempt < DEFAULT_RETRY_COUNT
               THEN /\ context' = r.ctx
                    /\ heap' = r.heap
                    /\ events' = Append(events, <<es.key, "retrying">>)
                    /\ es' = [es EXCEPT !.attempt = @ + 1]
                    /\ execs' = Append(execs, ExecRecord(es, context, heap, o, r,
                                                         events', FALSE))
                    /\ UNCHANGED <<result, pc, stopAtBoundary>>
               ELSE /\ context' = r.ctx
                    /\ heap' = Append(r.heap, FailedAgentResult(es.agent))
                    /\ events' = Append(events, <<es.key, "failed">>)
                    /\ result' = Len(r.heap) + 1
                    /\ pc' = es.ret
                    /\ es' = es
                    /\ execs' = Append(execs, ExecRecord(es, context, heap, o, r,
                                                         events', TRUE))
                    /\ stopAtBoundary' = stop_requested
  /\ UNCHANGED <<cfgVars, stop_requested, exc, localVars, pipeline_history,
                 passes, cancelAt>>
  /\ UNCHANGED envVars
  /\ NotifyObservers

IterStart_mut ==
  /\ pc = "it_start"
  /\ events' = events \o << <<"pipeline", "started">>, <<"input", "completed">> >>
  /\ context' = update_stage(context, "source_analyzer")
  /\ pc' = "it_after_analyze"
  /\ UNCHANGED <<cfgVars, stop_requested, exc, heap, localVars, result, es,
                 pipeline_history, ghostVars, cancelAt>>
  /\ UNCHANGED envVars
  /\ NotifyObservers

\* --------------------------------------------------------- execute_iterative
\* lines 374-382: no checkpoint precedes the analyzer
IterStart ==
  /\ pc = "it_start"
  /\ events' = events \o << <<"pipeline", "started">>, <<"input", "completed">> >>
  /\ context' = update_stage(context, "source_analyzer")
  /\ Call("source_analyzer", "source_analyzer", "it_after_analyze")
  /\ UNCHANGED <<cfgVars, stop_requested, exc, heap, localVars, result,
                 pipeline_history, ghostVars, cancelAt>>
  /\ UNCHANGED envVars
  /\ NotifyObservers

\* lines 384-385
IterAfterAnalyze ==
  /\ pc = "it_after_analyze"
  /\ current_stage' = "translator"
  /\ iteration' = 0
  /\ pc' = "it_loop_top"
  /\ UNCHANGED <<cfgVars, stop_requested, exc, context, heap, events, es, result,
                 review_local, review_passed, saved_review1_result, ppr_ret,
                 pipeline_history, ghostVars, cancelAt>>
  /\ UNCHANGED envVars
  /\ NotifyObservers

\* lines 387-397: next value of range(max_iterations), checkpoint, counter
IterLoopTop ==
  /\ pc = "it_loop_top"
  /\ IF range_exhausted(iteration, max_iterations)
       THEN /\ pc' = "it_exit"
            /\ UNCHANGED <<cfgVars, stop_requested, exc, context, heap, events,
                           localVars, es, result, pipeline_history, ghostVars,
                           cancelAt>>
       ELSE IF check_stop_requested(stop_requested) THEN Interrupted
       ELSE /\ context' = [context EXCEPT !.iteration_count = iteration + 1]
            /\ passes' = passes + 1
            /\ events' = Append(events, <<"iteration", "started">>)
            /\ pc' = "it_stage"
            /\ UNCHANGED <<cfgVars, stop_requested, exc, heap, localVars, es,
                           result, pipeline_history, execs, stopAtBoundary,
                           cancelAt>>
  /\ UNCHANGED envVars
  /\ NotifyObservers

\* lines 400-413 and 496: checkpoint, then the branch on current_stage
IterStage ==
  /\ pc = "it_stage"
  /\ IF check_stop_requested(stop_requested) THEN Interrupted
     ELSE IF current_stage = "translator"
       THEN /\ context' = update_stage(context, "translator")
            /\ events' = IF iteration > 0
                           THEN Append(events, <<"flow_control", "return_to_agent">>)
                           ELSE events
            /\ Call("translator", "translator", "it_after_translate")
            /\ UNCHANGED <<cfgVars, stop_requested, exc, heap, localVars, result,
                           pipeline_history, ghostVars, cancelAt>>
       ELSE /\ pc' = "it_optimize"
            /\ UNCHANGED <<cfgVars, stop_requested, exc, context, heap, events,
                           localVars, es, result, pipeline_history, ghostVars,
                           cancelAt>>
  /\ UNCHANGED envVars
  /\ NotifyObservers

\* lines 415-421
IterAfterTranslate ==
  /\ pc = "it_after_translate"
  /\ IF HasFailed(heap, result)
       THEN /\ pc' = "it_exit"
            /\ UNCHANGED <<context, es>>
       ELSE /\ context' = update_stage(context, "reviewer")
            /\ Call("reviewer", "reviewer", "it_after_review")
  /\ UNCHANGED <<cfgVars, stop_requested, exc, heap, events, localVars, result,
                 pipeline_history, ghostVars, cancelAt>>
  /\ UNCHANGED envVars
  /\ NotifyObservers

\* the 'continue' statement of the loop
Continue_mut(stage) ==
  /\ current_stage' = IF current_stage = "optimizer" THEN "translator" ELSE stage
  /\ iteration' = iteration + 1
  /\ pc' = "it_loop_top"

Continue(stage) ==
  /\ current_stage' = stage
  /\ iteration' = iteration + 1
  /\ pc' = "it_loop_top"

\* lines 423-493 and 596-602: routing on the first review
IterAfterReview ==
  /\ pc = "it_after_review"
  /\ review_local' = result
  /\ IF result = 0
       THEN /\ pc' = "it_exit"
            /\ UNCHANGED <<context, events, current_stage, iteration, es>>
       ELSE
         LET score == ScoreOf(heap, result)
             passed == check_review_passed(heap, result)
             severity == get_review_severity(heap, result)
             c1 == [context EXCEPT !.review_result = result]
         IN  IF passed /\ score >= SKIP_SCORE
               THEN /\ context' = c1
                    /\ events' = events \o << <<"flow_control", "skip_stage">>,
                                             <<"optimizer", "skipped">>,
                                             <<"reviewer2", "skipped">> >>
                    /\ pc' = "it_exit"
                    /\ UNCHANGED <<current_stage, iteration, es>>
             ELSE IF passed
               THEN /\ context' = c1
                    /\ Continue("optimizer")
                    /\ UNCHANGED <<events, es>>
             ELSE IF is_last_iteration(iteration, max_iterations)
               THEN /\ context' = c1
                    /\ pc' = "it_exit"
                    /\ UNCHANGED <<events, current_stage, iteration, es>>
             ELSE IF severity = "minor"
               THEN /\ events' = Append(events, <<"flow_control", "smart_routing">>)
                    /\ context' = [c1 EXCEPT !.fix_mode = "true"]
                    /\ Call("optimizer", "optimizer", "fix_after_optimize")
                    /\ UNCHANGED <<current_stage, iteration>>
             ELSE /\ context' = c1
                  /\ events' = Append(events, <<"flow_control", "return_to_agent">>)
                  /\ Continue("translator")
                  /\ UNCHANGED es
  /\ UNCHANGED <<cfgVars, stop_requested, exc, heap, result, review_passed,
                 saved_review1_result, ppr_ret, pipeline_history, ghostVars,
                 cancelAt>>
  /\ UNCHANGED envVars
  /\ NotifyObservers

FixAfterOptimize_mut ==
  /\ pc = "fix_after_optimize"
  /\ context' = context
  /\ IF HasFailed(heap, result)
       THEN /\ Continue("translator")
            /\ UNCHANGED es
       ELSE /\ Call("reviewer", "reviewer_fix", "fix_after_review")
            /\ UNCHANGED <<current_stage, iteration>>
  /\ UNCHANGED <<cfgVars, stop_requested, exc, heap, events, result, review_local,
                 review_passed, saved_review1_result, ppr_ret, pipeline_history,
                 ghostVars, cancelAt>>
  /\ UNCHANGED envVars
  /\ NotifyObservers

\* _execute_fix_mode lines 604-613, and lines 479-483 when it returns False
FixAfterOptimize ==
  /\ pc = "fix_after_optimize"
  /\ context' = [context EXCEPT !.fix_mode = "false"]
  /\ IF HasFailed(heap, result)
       THEN /\ Continue("translator")
            /\ UNCHANGED es
       ELSE /\ Call("reviewer", "reviewer_fix", "fix_after_review")
            /\ UNCHANGED <<current_stage, iteration>>
  /\ UNCHANGED <<cfgVars, stop_requested, exc, heap, events, result, review_local,
                 review_passed, saved_review1_result, ppr_ret, pipeline_history,
                 ghostVars, cancelAt>>
  /\ UNCHANGED envVars
  /\ NotifyObservers

\* _execute_fix_mode lines 615-635, and lines 475-483
FixAfterReview ==
  /\ pc = "fix_after_review"
  /\ IF HasFailed(heap, result)
       THEN /\ Continue("translator")
            /\ UNCHANGED <<heap, events>>
       ELSE IF check_review_passed(heap, result)
         THEN /\ heap' = IF context.review_result # 0
                            /\ heap[context.review_result].isReview
                           THEN [heap EXCEPT ![context.review_result].passed = TRUE]
                           ELSE heap
              /\ Continue("optimizer")
              /\ UNCHANGED events
         ELSE /\ events' = Append(events, <<"reviewer_fix", "failed">>)
              /\ Continue("translator")
              /\ UNCHANGED heap
  /\ UNCHANGED <<cfgVars, stop_requested, exc, context, es, result, review_local,
                 review_passed, saved_review1_result, ppr_ret, pipeline_history,
                 ghostVars, cancelAt>>
  /\ UNCHANGED envVars
  /\ NotifyObservers

\* lines 497-503: the optimize phase has a checkpoint of its own
IterOptimize ==
  /\ pc = "it_optimize"
  /\ IF check_stop_requested(stop_requested) THEN Interrupted
     ELSE /\ context' = update_stage(context, "optimizer")
          /\ Call("optimizer", "optimizer", "it_after_optimize")
          /\ UNCHANGED <<cfgVars, stop_requested, exc, heap, events, localVars,
                         result, pipeline_history, ghostVars, cancelAt>>
  /\ UNCHANGED envVars
  /\ NotifyObservers

\* _perform_post_opt_review lines 650-660, entered from caller
PostOptReviewCall(c, caller) ==
  IF "reviewer" \notin agents
    THEN /\ result' = 0
         /\ pc' = caller
         /\ context' = c
         /\ UNCHANGED <<es, saved_review1_result, ppr_ret>>
    ELSE /\ saved_review1_result' = c.review_result
         /\ ppr_ret' = caller
         /\ context' = c
         /\ Call("reviewer", "reviewer2", "ppr_after_review")
         /\ UNCHANGED result

\* lines 505-513
IterAfterOptimize ==
  /\ pc = "it_after_optimize"
  /\ IF HasFailed(heap, result)
       THEN /\ pc' = "it_exit"
            /\ UNCHANGED <<context, events, es, result, saved_review1_result,
                           ppr_ret>>
       ELSE /\ events' = Append(events, <<"reviewer2", "started">>)
            /\ PostOptReviewCall(update_stage(context, "reviewer2"),
                                 "it_after_review2")
  /\ UNCHANGED <<cfgVars, stop_requested, exc, heap, current_stage, iteration,
                 review_local, review_passed, pipeline_history, ghostVars,
                 cancelAt>>
  /\ UNCHANGED envVars
  /\ NotifyObservers

post_opt_restore_mut(c, saved, rid) ==
  IF rid # 0 THEN [c EXCEPT !.review2_result = rid] ELSE c

\* lines 662-665: put the first review back, file the second one
post_opt_restore(c, saved, rid) ==
  LET c1 == [c EXCEPT !.review_result = saved]
  IN  IF rid # 0 THEN [c1 EXCEPT !.review2_result = rid] ELSE c1

\* _perform_post_opt_review lines 662-667
PostOptReviewReturn ==
  /\ pc = "ppr_after_review"
  /\ context' = post_opt_restore(context, saved_review1_result, result)
  /\ pc' = ppr_ret
  /\ UNCHANGED <<cfgVars, stop_requested, exc, heap, events, localVars, es,
                 result, pipeline_history, ghostVars, cancelAt>>
  /\ UNCHANGED envVars
  /\ NotifyObservers

\* lines 515-552
IterAfterReview2 ==
  /\ pc = "it_after_review2"
  /\ IF result = 0
       THEN /\ pc' = "it_exit"
            /\ UNCHANGED <<events, current_stage, iteration>>
       ELSE IF check_review_passed(heap, result)
         THEN /\ events' = Append(events, <<"reviewer2", "completed">>)
              /\ pc' = "it_exit"
              /\ UNCHANGED <<current_stage, iteration>>
       ELSE IF is_last_iteration(iteration, max_iterations)
         THEN /\ events' = Append(events, <<"reviewer2", "completed">>)
              /\ pc' = "it_exit"
              /\ UNCHANGED <<current_stage, iteration>>
       ELSE /\ events' = events \o << <<"reviewer2", "completed">>,
                                      <<"flow_control", "return_to_agent">> >>
            /\ Continue("optimizer")
  /\ UNCHANGED <<cfgVars, stop_requested, exc, context, heap, es, result,
                 review_local, review_passed, saved_review1_result, ppr_ret,
                 pipeline_history, ghostVars, cancelAt>>
  /\ UNCHANGED envVars
  /\ NotifyObservers

\* lines 554-564
IterExit ==
  /\ pc = "it_exit"
  /\ context' = complete(context)
  /\ events' = events \o << <<"output", "completed">>, <<"pipeline", "completed">> >>
  /\ pc' = "tr_return"
  /\ UNCHANGED <<cfgVars, stop_requested, exc, heap, localVars, es, result,
                 pipeline_history, ghostVars, cancelAt>>
  /\ UNCHANGED envVars
  /\ NotifyObservers


\* ---------------------------------------------------------- execute_pipeline
\* return context after context.update_stage('failed')
PipelineFailed ==
  /\ context' = update_stage(context, "failed")
  /\ pc' = "tr_return"

\* lines 206-216
PipeStart ==
  /\ pc = "pl_start"
  /\ IF check_stop_requested(stop_requested)
       THEN /\ pc' = "tr_except"
            /\ cancelAt' = Len(events) + 2
            /\ UNCHANGED <<context, es>>
       ELSE /\ cancelAt' = cancelAt
            /\ IF "source_analyzer" \in agents
                 THEN /\ context' = update_stage(context, "source_analyzer")
                      /\ Call("source_analyzer", "source_analyzer", "pl_after_analyze")
                 ELSE /\ pc' = "pl_translate"
                      /\ UNCHANGED <<context, es>>
  /\ events' = events \o << <<"pipeline", "started">>, <<"input", "completed">> >>
  /\ UNCHANGED <<cfgVars, stop_requested, exc, heap, localVars, result,
                 pipeline_history, ghostVars>>
  /\ UNCHANGED envVars
  /\ NotifyObservers

\* lines 217-220
PipeAfterAnalyze ==
  /\ pc = "pl_after_analyze"
  /\ IF HasFailed(heap, result)
       THEN PipelineFailed
       ELSE /\ pc' = "pl_translate"
            /\ UNCHANGED context
  /\ UNCHANGED <<cfgVars, stop_requested, exc, heap, events, localVars, es, result,
                 pipeline_history, ghostVars, cancelAt>>
  /\ UNCHANGED envVars
  /\ NotifyObservers

\* lines 223-226
PipeTranslate ==
  /\ pc = "pl_translate"
  /\ IF check_stop_requested(stop_requested) THEN Interrupted
     ELSE /\ IF "translator" \in agents
               THEN /\ context' = update_stage(context, "translator")
                    /\ Call("translator", "translator", "pl_after_translate")
               ELSE /\ pc' = "pl_review"
                    /\ UNCHANGED <<context, es>>
          /\ UNCHANGED <<cfgVars, stop_requested, exc, heap, events, localVars,
                         result, pipeline_history, ghostVars, cancelAt>>
  /\ UNCHANGED envVars
  /\ NotifyObservers

\* lines 227-230
PipeAfterTranslate ==
  /\ pc = "pl_after_translate"
  /\ IF HasFailed(heap, result)
       THEN PipelineFailed
       ELSE /\ pc' = "pl_review"
            /\ UNCHANGED context
  /\ UNCHANGED <<cfgVars, stop_requested, exc, heap, events, localVars, es, result,
                 pipeline_history, ghostVars, cancelAt>>
  /\ UNCHANGED envVars
  /\ NotifyObservers

\* lines 233-238
PipeReview ==
  /\ pc = "pl_review"
  /\ IF check_stop_requested(stop_requested) THEN Interrupted
     ELSE /\ review_passed' = FALSE
          /\ review_local' = 0
          /\ IF "reviewer" \in agents
               THEN /\ context' = update_stage(context, "reviewer")
                    /\ Call("reviewer", "reviewer", "pl_after_review")
               ELSE /\ pc' = "pl_optimize"
                    /\ UNCHANGED <<context, es>>
          /\ UNCHANGED <<cfgVars, stop_requested, exc, heap, events, current_stage,
                         iteration, saved_review1_result, ppr_ret, result,
                         pipeline_history, ghostVars, cancelAt>>
  /\ UNCHANGED envVars
  /\ NotifyObservers

PipeAfterReview_mut ==
  /\ pc = "pl_after_review"
  /\ review_local' = result
  /\ IF HasFailed(heap, result)
       THEN /\ PipelineFailed
            /\ UNCHANGED <<events, review_passed>>
       ELSE /\ review_passed' = check_review_passed(heap, result)
            /\ IF check_review_passed(heap, result)
                  /\ ScoreOf(heap, result) >= SKIP_SCORE
                 THEN /\ events' = events \o << <<"flow_control", "skip_stage">>,
                                               <<"optimizer", "skipped">>,
                                               <<"reviewer2", "skipped">>,
                                               <<"output", "completed">>,
                                               <<"pipeline", "completed">> >>
                      /\ context' = complete(context)
                      /\ pc' = "pl_optimize"
                 ELSE /\ pc' = "pl_optimize"
                      /\ UNCHANGED <<events, context>>
  /\ UNCHANGED <<cfgVars, stop_requested, exc, heap, current_stage, iteration,
                 saved_review1_result, ppr_ret, es, result, pipeline_history,
                 ghostVars, cancelAt>>
  /\ UNCHANGED envVars
  /\ NotifyObservers

\* lines 239-274
PipeAfterReview ==
  /\ pc = "pl_after_review"
  /\ review_local' = result
  /\ IF HasFailed(heap, result)
       THEN /\ PipelineFailed
            /\ UNCHANGED <<events, review_passed>>
       ELSE /\ review_passed' = check_review_passed(heap, result)
            /\ IF check_review_passed(heap, result)
                  /\ ScoreOf(heap, result) >= SKIP_SCORE
                 THEN /\ events' = events \o << <<"flow_control", "skip_stage">>,
                                               <<"optimizer", "skipped">>,
                                               <<"reviewer2", "skipped">>,
                                               <<"output", "completed">>,
                                               <<"pipeline", "completed">> >>
                      /\ context' = complete(context)
                      /\ pc' = "tr_return"
                 ELSE /\ pc' = "pl_optimize"
                      /\ UNCHANGED <<events, context>>
  /\ UNCHANGED <<cfgVars, stop_requested, exc, heap, current_stage, iteration,
                 saved_review1_result, ppr_ret, es, result, pipeline_history,
                 ghostVars, cancelAt>>
  /\ UNCHANGED envVars
  /\ NotifyObservers

\* lines 277-287
PipeOptimize ==
  /\ pc = "pl_optimize"
  /\ IF check_stop_requested(stop_requested) THEN Interrupted
     ELSE /\ IF "optimizer" \in agents
               THEN /\ context' =
                         LET c1 == update_stage(context, "optimizer")
                         IN  IF review_local # 0 /\ ~review_passed
                                /\ get_review_severity(heap, review_local) = "minor"
                               THEN [c1 EXCEPT !.fix_mode = "true"]
                               ELSE c1
                    /\ Call("optimizer", "optimizer", "pl_after_optimize")
               ELSE /\ pc' = "pl_final"
                    /\ UNCHANGED <<context, es>>
          /\ UNCHANGED <<cfgVars, stop_requested, exc, heap, events, localVars,
                         result, pipeline_history, ghostVars, cancelAt>>
  /\ UNCHANGED envVars
  /\ NotifyObservers

\* lines 289-300
PipeAfterOptimize ==
  /\ pc = "pl_after_optimize"
  /\ LET c1 == [context EXCEPT !.fix_mode = "unset"]
     IN  IF HasFailed(heap, result)
           THEN /\ context' = c1
                /\ pc' = "pl_final"
                /\ UNCHANGED <<events, es, result, saved_review1_result, ppr_ret>>
           ELSE /\ events' = Append(events, <<"reviewer2", "started">>)
                /\ PostOptReviewCall(update_stage(c1, "reviewer2"),
                                     "pl_after_review2")
  /\ UNCHANGED <<cfgVars, stop_requested, exc, heap, current_stage, iteration,
                 review_local, review_passed, pipeline_history, ghostVars,
                 cancelAt>>
  /\ UNCHANGED envVars
  /\ NotifyObservers

\* lines 302-323
PipeAfterReview2 ==
  /\ pc = "pl_after_review2"
  /\ events' = IF HasFailed(heap, result) THEN events
               ELSE Append(events, <<"reviewer2", "completed">>)
  /\ pc' = "pl_final"
  /\ UNCHANGED <<cfgVars, stop_requested, exc, context, heap, localVars, es,
                 result, pipeline_history, ghostVars, cancelAt>>
  /\ UNCHANGED envVars
  /\ NotifyObservers

\* lines 326-336
PipeFinal ==
  /\ pc = "pl_final"
  /\ IF check_stop_requested(stop_requested) THEN Interrupted
     ELSE /\ context' = complete(context)
          /\ events' = events \o << <<"output", "completed">>,
                                    <<"pipeline", "completed">> >>
          /\ pc' = "tr_return"
          /\ UNCHANGED <<cfgVars, stop_requested, exc, heap, localVars, es,
                         result, pipeline_history, ghostVars, cancelAt>>
  /\ UNCHANGED envVars
  /\ NotifyObservers

\* ------------------------------------------------------------ specification
\* a step of the thread that constructs the pipeline and runs translate()
ProgramStep ==
  \/ InitAgents
  \/ TranslateCall
  \/ TranslateExcept
  \/ TranslateReturn
  \/ ExecuteSingleStart
  \/ ExecuteSingleAttempt
  \/ IterStart
  \/ IterAfterAnalyze
  \/ IterLoopTop
  \/ IterStage
  \/ IterAfterTranslate
  \/ IterAfterReview
  \/ FixAfterOptimize
  \/ FixAfterReview
  \/ IterOptimize
  \/ IterAfterOptimize
  \/ PostOptReviewReturn
  \/ IterAfterReview2
  \/ IterExit
  \/ PipeStart
  \/ PipeAfterAnalyze
  \/ PipeTranslate
  \/ PipeAfterTranslate
  \/ PipeReview
  \/ PipeAfterReview
  \/ PipeOptimize
  \/ PipeAfterOptimize
  \/ PipeAfterReview2
  \/ PipeFinal

Next ==
  \/ RequestStop
  \/ ProgramStep

Spec == Init /\ [][Next]_vars

\* ------------------------------------ execute_iterative with a third loop pass
\* the orchestrator as built for iterative runs of DeepIter passes with the
\* Translator, the Reviewer and the Optimizer enabled (the Analyzer's result
\* is not read by execute_iterative), about to receive translate()
InitDeep ==
  /\ mode = "iterative"
  /\ max_iterations = DeepIter
  /\ pass_threshold \in PassThresholds
  /\ agents = init_agents({"translator", "reviewer", "optimizer"}, TRUE)
  /\ usable_clients = TRUE
  /\ worker_stop = FALSE
  /\ progress_callbacks = <<>>
  /\ received = [ o \in Observers |-> <<>> ]
  /\ escaped = FALSE
  /\ busLog = NoBusLog
  /\ llm = NoPool
  /\ stop_requested = FALSE
  /\ pc = "idle"
  /\ exc = "none"
  /\ context = NewContext
  /\ heap = <<>>
  /\ events = <<>>
  /\ current_stage = "none"
  /\ iteration = 0
  /\ es = NoFrame
  /\ result = 0
  /\ review_local = 0
  /\ review_passed = FALSE
  /\ saved_review1_result = 0
  /\ ppr_ret = "none"
  /\ pipeline_history = 0
  /\ execs = <<>>
  /\ passes = 0
  /\ stopAtBoundary = FALSE
  /\ cancelAt = -1

\* the run is left to finish: request_stop is not called
NextDeep ==
  \/ TranslateCall
  \/ TranslateReturn
  \/ ExecuteSingleStart
  \/ ExecuteSingleAttempt
  \/ IterStart
  \/ IterAfterAnalyze
  \/ IterLoopTop
  \/ IterStage
  \/ IterAfterTranslate
  \/ IterAfterReview
  \/ FixAfterOptimize
  \/ FixAfterReview
  \/ IterOptimize
  \/ IterAfterOptimize
  \/ PostOptReviewReturn
  \/ IterAfterReview2
  \/ IterExit

SpecDeep == InitDeep /\ [][NextDeep]_vars

\* ------------------------------------------- translate() after a cancelled run
NextAgain ==
  \/ Next
  \/ TranslateAgain

SpecAgain == Init /\ [][NextAgain]_vars

\* ------------------------------------------------ the observer registry alone
\* register_progress_callback, clear_progress_callbacks and _notify_progress
\* driven by any caller, with observers that may raise
runVars == <<cfgVars, usable_clients, worker_stop, stop_requested, exc, context,
             heap, localVars, es, result, pipeline_history, ghostVars, cancelAt,
             llm>>

InitBus ==
  /\ mode = "iterative"
  /\ max_iterations = 1
  /\ pass_threshold = DEFAULT_PASS_THRESHOLD
  /\ agents = AgentKeys
  /\ usable_clients = TRUE
  /\ worker_stop = FALSE
  /\ progress_callbacks = <<>>
  /\ received = [ o \in Observers |-> <<>> ]
  /\ escaped = FALSE
  /\ busLog = NoBusLog
  /\ llm = NoPool
  /\ stop_requested = FALSE
  /\ pc = "bus_setup"
  /\ exc = "none"
  /\ context = NewContext
  /\ heap = <<>>
  /\ events = <<>>
  /\ current_stage = "none"
  /\ iteration = 0
  /\ es = NoFrame
  /\ result = 0
  /\ review_local = 0
  /\ review_passed = FALSE
  /\ saved_review1_result = 0
  /\ ppr_ret = "none"
  /\ pipeline_history = 0
  /\ execs = <<>>
  /\ passes = 0
  /\ stopAtBoundary = FALSE
  /\ cancelAt = -1

BusRegister ==
  /\ pc = "bus_setup"
  /\ busLog.registrations < MaxRegistrations
  /\ \E cb \in Observers :
       /\ progress_callbacks' = register_progress_callback(progress_callbacks, cb)
       /\ busLog' = [busLog EXCEPT
                       !.registrations = @ + 1,
                       !.duplicate = @ \/ \E k \in 1..Len(progress_callbacks) :
                                              progress_callbacks[k] = cb]
  /\ UNCHANGED <<runVars, pc, events, received, escaped>>

BusClear ==
  /\ pc = "bus_setup"
  /\ progress_callbacks # <<>>
  /\ progress_callbacks' = clear_progress_callbacks(progress_callbacks)
  /\ busLog' = [busLog EXCEPT !.duplicate = FALSE]
  /\ UNCHANGED <<runVars, pc, events, received, escaped>>

\* the run begins: from here on the list is only read
BusStart ==
  /\ pc = "bus_setup"
  /\ pc' = "bus_run"
  /\ UNCHANGED <<runVars, events, received, escaped, progress_callbacks, busLog>>

\* one _notify_progress(stage, status, data) call
BusNotify ==
  /\ pc = "bus_run"
  /\ Len(events) < MaxEvents
  /\ \E e \in BusEvents, raisers \in SUBSET Observers :
       LET r == notify_progress(progress_callbacks, received, <<e>>, raisers)
       IN  /\ events' = Append(events, e)
           /\ received' = r.received
           /\ escaped' = (escaped \/ r.escaped)
           /\ busLog' = [busLog EXCEPT
                           !.raised = @ \/ \E k \in 1..(Len(progress_callbacks) - 1) :
                                              progress_callbacks[k] \in raisers]
  /\ UNCHANGED <<runVars, pc, progress_callbacks>>

NextBus ==
  \/ BusRegister
  \/ BusClear
  \/ BusStart
  \/ BusNotify

SpecBus == InitBus /\ [][NextBus]_vars

\* ------------------------------------------------ one agent's model-client pool
\* BaseAgent._get_next_client and BaseAgent._call_llm of a single agent, called
\* by its process() any number of times; a client call succeeds or raises
nonLLMVars == <<cfgVars, usable_clients, worker_stop, stop_requested, exc, context,
                heap, localVars, es, result, pipeline_history, ghostVars, cancelAt,
                pc, events, received, escaped, progress_callbacks, busLog>>

\* a pool built by _create_clients is never empty (ValueError otherwise)
InitLLM ==
  /\ mode = "iterative"
  /\ max_iterations = 1
  /\ pass_threshold = DEFAULT_PASS_THRESHOLD
  /\ agents = AgentKeys
  /\ usable_clients = TRUE
  /\ worker_stop = FALSE
  /\ progress_callbacks = <<>>
  /\ received = [ o \in Observers |-> <<>> ]
  /\ escaped = FALSE
  /\ busLog = NoBusLog
  /\ llm \in { Pool(n) : n \in 1..MaxClients }
  /\ stop_requested = FALSE
  /\ pc = "llm"
  /\ exc = "none"
  /\ context = NewContext
  /\ heap = <<>>
  /\ events = <<>>
  /\ current_stage = "none"
  /\ iteration = 0
  /\ es = NoFrame
  /\ result = 0
  /\ review_local = 0
  /\ review_passed = FALSE
  /\ saved_review1_result = 0
  /\ ppr_ret = "none"
  /\ pipeline_history = 0
  /\ execs = <<>>
  /\ passes = 0
  /\ stopAtBoundary = FALSE
  /\ cancelAt = -1

get_next_client_mut(idx, n) ==
  [ client |-> idx, idx |-> IF idx + 1 < n THEN idx + 1 ELSE idx ]

\* the client at current_client_idx, and the index advanced modulo the pool
get_next_client(idx, n) ==
  [ client |-> idx, idx |-> (idx + 1) % n ]

retries_exhausted_mut(attempt, max_retries) == attempt > max_retries

\* for attempt in range(max_retries) has no value left
retries_exhausted(attempt, max_retries) == attempt >= max_retries

\* _call_llm is entered: lines 91-96
CallLLM ==
  /\ pc = "llm"
  /\ llm.phase # "calling"
  /\ Len(llm.log) + MAX_RETRIES <= MaxPicks
  /\ llm' = [llm EXCEPT !.phase = "calling", !.attempt = 0,
                        !.start = Len(llm.log)]
  /\ UNCHANGED nonLLMVars

\* one pass of the loop of _call_llm (lines 97-109), or the raise after it (111)
CallLLMAttempt ==
  /\ pc = "llm"
  /\ llm.phase = "calling"
  /\ IF retries_exhausted(llm.attempt, MAX_RETRIES)
       THEN llm' = [llm EXCEPT !.phase = "raised"]
       ELSE \E ok \in BOOLEAN :
              LET g == get_next_client(llm.idx, llm.n)
              IN  llm' = [llm EXCEPT
                            !.idx = g.idx,
                            !.log = Append(@, [client |-> g.client, ok |-> ok]),
                            !.phase = IF ok THEN "returned" ELSE "calling",
                            !.attempt = IF ok THEN @ ELSE @ + 1]
  /\ UNCHANGED nonLLMVars

NextLLM ==
  \/ CallLLM
  \/ CallLLMAttempt

SpecLLM == InitLLM /\ [][NextLLM]_vars

TypeOK ==
  /\ pc \in {"new", "bus_setup", "bus_run", "llm", "idle", "it_start", "pl_start", "es_start", "es_attempt",
             "it_after_analyze", "it_loop_top", "it_stage", "it_after_translate",
             "it_after_review", "fix_after_optimize", "fix_after_review",
             "it_optimize", "it_after_optimize", "ppr_after_review",
             "it_after_review2", "it_exit", "pl_after_analyze", "pl_translate",
             "pl_after_translate", "pl_review", "pl_after_review", "pl_optimize",
             "pl_after_optimize", "pl_after_review2", "pl_final", "tr_except",
             "tr_return", "returned", "raised"}
  /\ exc \in {"none", "ValueError", "InterruptedError"}
  /\ context.fix_mode \in {"unset", "true", "false"}
  /\ \A f \in {context.analysis_result, context.translation_result,
               context.review_result, context.optimization_result,
               context.review2_result, result, review_local} : f \in 0..Len(heap)


\* ------------------------------------------------------------------- claims
HasEvent(e) == \E k \in 1..Len(events) : events[k] = e

\* the orchestrator has taken its routing decision on the review execs[i]
Routed(i) == ~(i = Len(execs) /\ pc = "it_after_review")

\* execs[i] is a first review of a loop pass of execute_iterative
FirstReview(i) ==
  mode = "iterative" /\ execs[i].key = "reviewer" /\ execs[i].returned

Finished == pc \in {"it_exit", "tr_return", "returned"}

LastTranslatorExec ==
  CHOOSE i \in 1..Len(execs) :
    /\ execs[i].agent = "translator"
    /\ \A j \in (i + 1)..Len(execs) : execs[j].agent # "translator"

\* C1: in iterative mode, once the orchestrator has routed on a first review
\* whose score is >= 90, both 'skipped' events have been emitted, that review
\* is the last stage execution of the run and the run is on its way out of the
\* loop to completion.
C1_SkipOnExcellent ==
  \A i \in 1..Len(execs) :
    (FirstReview(i) /\ ~execs[i].failed /\ execs[i].score >= SKIP_SCORE /\ Routed(i))
      => /\ i = Len(execs)
         /\ HasEvent(<<"optimizer", "skipped">>)
         /\ HasEvent(<<"reviewer2", "skipped">>)
         /\ Finished

\* C2: in iterative mode, a run that left the loop through the skip branch
\* has as its final translation the output of the last Translator execution.
C2_SkipFinalIsTranslation ==
  (mode = "iterative" /\ Finished /\ HasEvent(<<"optimizer", "skipped">>))
    => get_final_translation(context, heap)
         = heap[execs[LastTranslatorExec].rid].output

\* C3: in iterative mode, when a run has returned, every first review that
\* passed with 80 <= score < 90 was followed by an Optimizer execution, a
\* second review is stored in review2_result, and review_result holds a first
\* review.
C3_PassedBelowSkipOptimizes ==
  (mode = "iterative" /\ pc = "returned") =>
    \A i \in 1..Len(execs) :
      (FirstReview(i) /\ execs[i].passed
         /\ execs[i].score >= DEFAULT_PASS_THRESHOLD /\ execs[i].score < SKIP_SCORE)
        => /\ \E j \in (i + 1)..Len(execs) : execs[j].agent = "optimizer"
           /\ context.review2_result # 0
           /\ context.review_result = execs[i].rid

\* C4: in iterative mode iteration_count always equals the number of loop
\* passes started, never exceeds max_iterations, and is 1 when the run ended
\* by the skip branch in its first pass.
C4_IterationCountIsPasses ==
  mode = "iterative" =>
    /\ context.iteration_count = passes
    /\ context.iteration_count <= max_iterations
    /\ (Finished /\ passes = 1 /\ HasEvent(<<"optimizer", "skipped">>))
         => context.iteration_count = 1

\* C5: an execute_single call all of whose attempts failed made retry_count + 1
\* attempts, announced retry_count times 'retrying' and once 'failed', never
\* 'completed', and returned a failed result.
C5_AlwaysFailingStageIsRetried ==
  \A i \in 1..Len(execs) :
    (execs[i].returned /\ execs[i].allFailed)
      => /\ execs[i].attempts = DEFAULT_RETRY_COUNT + 1
         /\ execs[i].nRetrying = DEFAULT_RETRY_COUNT
         /\ execs[i].nFailed = 1
         /\ execs[i].nCompleted = 0
         /\ execs[i].failed

\* C6: no stage executes when request_stop() had already been called at the
\* moment the previous stage call returned (or the run began).
C6_StopHaltsBeforeNextStage ==
  \A i \in 1..Len(execs) : ~execs[i].stopBefore

\* C7: once a checkpoint has observed the stop flag, the context is never
\* marked completed, completed_at stays unset and no further event is emitted.
C7_CancelledRunStaysUncompleted ==
  cancelAt >= 0 =>
    /\ context.current_stage # "completed"
    /\ ~context.completed_at
    /\ Len(events) = cancelAt

C7_Witness ==
  /\ pc = "raised"
  /\ exc = "InterruptedError"
  /\ cancelAt >= 0
  /\ Len(execs) >= 1
  /\ context.current_stage = "error"

\* every loop pass of the run made a first review that came back not passed
\* with a score below 80
EveryFirstReviewMajor ==
  /\ mode = "iterative"
  /\ passes >= 1
  /\ \A p \in 1..passes :
       \E i \in 1..Len(execs) :
         /\ FirstReview(i) /\ execs[i].pass = p
         /\ ~execs[i].failed /\ ~execs[i].passed
         /\ execs[i].score < DEFAULT_PASS_THRESHOLD

MajorWithIterationsLeft(i) ==
  /\ FirstReview(i)
  /\ ~execs[i].passed
  /\ execs[i].score < DEFAULT_PASS_THRESHOLD
  /\ execs[i].pass < max_iterations
  /\ Routed(i)

C10_SecondReviewKeepsFirst ==
  (pc \in {"it_after_review2", "pl_after_review2"} /\ result # 0) =>
    LET e == execs[Len(execs)]
    IN  /\ e.key = "reviewer2"
        /\ context.review_result = e.review_before
        /\ context.review2_result = result
        /\ context.review_result # result
        /\ context.translation_result # result
        /\ context.optimization_result # result
        /\ context.analysis_result # result

C10_Witness ==
  /\ pc = "it_after_review2"
  /\ result # 0
  /\ execs[Len(execs)].outcome = "json"
  /\ execs[Len(execs)].review_before # 0
  /\ context.review_result = execs[Len(execs)].review_before
  /\ context.review2_result = result

\* C11: in every state of a run the final translation is the Optimizer
\* result's output when an optimization result is present with non-empty
\* output, else the Translator result's output when a translation result is
\* present with non-empty output, else the empty string.
C11_FinalTranslationChoice ==
  LET opt == context.optimization_result
      tr == context.translation_result
      optText == opt # 0 /\ heap[opt].output # 0
      trText == tr # 0 /\ heap[tr].output # 0
      final == get_final_translation(context, heap)
  IN  /\ optText => final = heap[opt].output
      /\ (~optText /\ trText) => final = heap[tr].output
      /\ (~optText /\ ~trText) => final = 0

C11_Witness ==
  /\ context.optimization_result # 0
  /\ heap[context.optimization_result].output = 0
  /\ context.translation_result # 0
  /\ get_final_translation(context, heap) = heap[context.translation_result].output
  /\ get_final_translation(context, heap) # 0

\* C12: an execute_iterative run that has left its loop and returned is
\* marked completed with completed_at set, whether or not a review passed,
\* and the last two events it emitted are 'output' completed and 'pipeline'
\* completed.
C12_LoopExitCompletes ==
  (mode = "iterative" /\ pc \in {"tr_return", "returned"}) =>
    /\ context.current_stage = "completed"
    /\ context.completed_at
    /\ Len(events) >= 2
    /\ events[Len(events) - 1] = <<"output", "completed">>
    /\ events[Len(events)] = <<"pipeline", "completed">>

C12_Witness ==
  /\ mode = "iterative"
  /\ pc = "returned"
  /\ context.current_stage = "completed"
  /\ context.review_result # 0
  /\ ~heap[context.review_result].passed
  /\ events[Len(events)] = <<"pipeline", "completed">>

\* C13: a Reviewer execution whose model response is not the expected JSON
\* object (text that is no JSON, or JSON that is not an object) returns a
\* completed result with a fallback score and passed = (score >= threshold).
C13_MalformedReviewNeverFails ==
  \A i \in 1..Len(execs) :
    (execs[i].agent = "reviewer" /\ execs[i].input # 0
       /\ execs[i].outcome \in {"malformed", "nonobject"})
      => /\ ~execs[i].failed
         /\ execs[i].score \in ExtractedScores
         /\ execs[i].passed = (execs[i].score >= pass_threshold)

\* C14: no exception leaves _notify_progress or execute_single, also when
\* process() raises and when the observer raises: a call on a missing agent
\* has returned None, a call on a present agent has returned a result of
\* that agent, failed when process() raised, and the only exceptions that
\* leave translate() are the ValueError of an empty text and the
\* InterruptedError of a checkpoint.
C14_ExecuteSingleNeverRaises ==
  /\ ~escaped
  /\ (pc = es.ret /\ es.agent \notin agents) => result = 0
  /\ (pc = es.ret /\ es.agent \in agents) =>
        /\ result \in 1..Len(heap)
        /\ heap[result].agent = es.agent
        /\ heap[result].status \in {"completed", "failed"}
        /\ execs[Len(execs)].rid = result
        /\ execs[Len(execs)].outcome = "raise" => heap[result].status = "failed"
  /\ (pc = "raised" /\ exc = "InterruptedError") => cancelAt >= 0
  /\ pc = "tr_except" => cancelAt >= 0

C14_Witness ==
  /\ pc = es.ret
  /\ es.agent \in agents
  /\ result # 0
  /\ heap[result].status = "failed"
  /\ execs[Len(execs)].outcome = "raise"
  /\ execs[Len(execs)].stopBefore
  /\ worker_stop
  /\ received["progress_callback"] = events

\* C15: when InterruptedError has unwound through translate(), the context
\* does not carry the 'error' marker that translate() gives to failures.
C15_CancelIsNotMarkedError ==
  (pc = "raised" /\ exc = "InterruptedError") => context.current_stage # "error"

\* C16: once request_stop() has set the flag, no later step of the run marks
\* the context completed or emits the 'pipeline' completed event.
C16_StopPreventsCompletion ==
  [][ stop_requested =>
        /\ (context'.current_stage = "completed"
              => context.current_stage = "completed")
        /\ (Len(events') > Len(events)
              => events'[Len(events')] # <<"pipeline", "completed">>) ]_vars

\* C18: with no usable client credentials the construction does not come
\* back normally, so no run is ever started.
C18_NoCredentialsNoRun ==
  ~usable_clients => pc = "new"

\* C20: in iterative mode a failed Translator execution is the last stage
\* execution of the run, and a run that returned after it is not in the
\* 'completed' state of a successful run.
C20_TranslatorFailureIsFailed ==
  \A i \in 1..Len(execs) :
    (mode = "iterative" /\ execs[i].agent = "translator"
       /\ execs[i].returned /\ execs[i].failed)
      => /\ i = Len(execs)
         /\ pc \in {"tr_return", "returned"}
              => context.current_stage # "completed"

Registered(o) == \E k \in 1..Len(progress_callbacks) : progress_callbacks[k] = o

\* C17: every registered observer has been called with exactly the events
\* emitted, once each and in emission order, and an observer that is not
\* registered with none, also after a callback was registered again and
\* after an observer earlier in the list raised.
C17_EveryObserverGetsEveryEvent ==
  \A o \in Observers :
    received[o] = IF Registered(o) THEN events ELSE <<>>

C17_Witness ==
  /\ pc = "bus_run"
  /\ busLog.duplicate
  /\ busLog.raised
  /\ Len(progress_callbacks) >= 2
  /\ Len(events) >= 2
  /\ events[1] # events[2]
  /\ \A o \in Observers : Registered(o) => received[o] = events

\* the stage keys of the agent.execute calls made in loop pass p, in order
PassKeys(p) ==
  LET sel == SelectSeq(execs, LAMBDA e : e.pass = p)
  IN  [ k \in 1..Len(sel) |-> sel[k].key ]

PassShapes ==
  { <<>>, <<"translator">>, <<"translator", "reviewer">>,
    <<"translator", "reviewer", "optimizer">>,
    <<"translator", "reviewer", "optimizer", "reviewer_fix">>,
    <<"optimizer">>, <<"optimizer", "reviewer2">> }

\* translate() is over: the run returned completed, was cancelled, or the
\* text was refused before execute_iterative was entered
IterativeEnded ==
  \/ pc = "returned" /\ context.current_stage = "completed"
  \/ pc = "raised" /\ exc = "InterruptedError"
  \/ pc = "raised" /\ exc = "ValueError" /\ events = <<>>

\* the positions of an iterative run, each set later in the control flow of
\* one loop pass than the sets that follow it in the list
PcOrder ==
  << {"returned", "raised"}, {"tr_return", "tr_except"}, {"it_exit"},
     {"it_after_review2", "fix_after_review"}, {"ppr_after_review"},
     {"it_after_optimize", "fix_after_optimize"},
     {"it_optimize", "it_after_review"}, {"it_after_translate"},
     {"it_stage"}, {"it_loop_top"}, {"it_after_analyze"}, {"it_start"},
     {"idle"}, {"new"} >>

Ord(p) == CHOOSE k \in 1..Len(PcOrder) : p \in PcOrder[k]

\* room between two positions for one execute_single call: its start and
\* its retry_count + 1 attempts
Stride == DEFAULT_RETRY_COUNT + 3

\* a bound on the number of steps the run can still take: the loop passes
\* left, then the position in the pass, then the attempts left of the call
IterRank ==
  LET inCall == pc \in {"es_start", "es_attempt"}
      pos == IF inCall THEN Ord(es.ret) ELSE Ord(pc)
      call == IF pc = "es_start" THEN Stride - 1
              ELSE IF pc = "es_attempt" THEN Stride - 2 - es.attempt
              ELSE 0
      left == IF pos > Ord("it_exit")
                THEN (max_iterations - iteration) * (Ord("it_loop_top") + 1) * Stride
                ELSE 0
  IN  left + pos * Stride + call

\* C19: an iterative run makes at most max_iterations loop passes, each pass
\* executes at most Translator, Reviewer, fix Optimizer, fix Reviewer, or
\* Optimizer and second Reviewer; every step of the run lowers a bound that
\* never goes below zero, a run that is not over can take a step, and a run
\* that is over has ended completed or cancelled.
C19_IterativeTerminates ==
  /\ [](mode = "iterative" =>
          /\ passes <= max_iterations
          /\ \A p \in 1..passes : PassKeys(p) \in PassShapes
          /\ PassKeys(0) \in {<<>>, <<"source_analyzer">>}
          /\ IterRank >= 0
          /\ pc \in {"returned", "raised"} => IterativeEnded
          /\ pc \notin {"returned", "raised"} => ENABLED ProgramStep)
  /\ [][ mode = "iterative" =>
            \/ IterRank' < IterRank
            \/ stop_requested' /\ ~stop_requested /\ IterRank' = IterRank ]_vars

C19_Witness ==
  /\ mode = "iterative"
  /\ pc = "returned"
  /\ max_iterations = 2
  /\ passes = 2
  /\ PassKeys(1) = <<"translator", "reviewer", "optimizer", "reviewer_fix">>
  /\ PassKeys(2) = <<"optimizer", "reviewer2">>

\* ---------------------------------------------------------------- C21 .. C30
\* C21: in iterative mode a first review whose execution failed (a result
\* with status failed) ends the run: once the orchestrator has routed on it,
\* it is the last stage execution of the run and the loop has been left
C21_FailedFirstReviewEndsRun ==
  \A i \in 1..Len(execs) :
    (FirstReview(i) /\ execs[i].failed /\ Routed(i)) =>
      /\ i = Len(execs)
      /\ pc \in {"it_exit", "tr_return", "tr_except", "returned", "raised"}

\* execs[i] is a second review (post-optimisation review) of execute_iterative
SecondReview(i) ==
  mode = "iterative" /\ execs[i].key = "reviewer2" /\ execs[i].returned

\* C22: in the Optimize phase of iterative mode a second review whose execution
\* failed ends the run in that pass: no stage executes after it, no
\* 'return_to_agent' event follows it and the loop is left
C22_FailedSecondReviewEndsRun ==
  \A i \in 1..Len(execs) :
    (SecondReview(i) /\ execs[i].failed /\ pc /= "ppr_after_review"
       /\ ~(i = Len(execs) /\ pc = "it_after_review2")) =>
      /\ i = Len(execs)
      /\ pc \in {"it_exit", "tr_return", "tr_except", "returned", "raised"}
      /\ events[Len(events)] /= <<"flow_control", "return_to_agent">>

\* execs[i] is an Optimizer execution of the Optimize phase of execute_iterative
PolishOptimizer(i) ==
  /\ mode = "iterative"
  /\ execs[i].key = "optimizer"
  /\ ~execs[i].fix
  /\ execs[i].returned

\* the record of the first attempt of the execution that execs[i] ends
FirstAttempt(i) == execs[i - execs[i].attempts + 1]

\* C23: when the Optimizer's execution fails in the Optimize phase of
\* iterative mode, the loop is left in that pass without a second review (it
\* is the last stage execution), the run that returns is marked completed,
\* and get_final_translation() is what it was before that execution began.
C23_FailedOptimizerEndsRun ==
  \A i \in 1..Len(execs) :
    (PolishOptimizer(i) /\ execs[i].failed
       /\ ~(i = Len(execs) /\ pc = "it_after_optimize")) =>
      /\ i = Len(execs)
      /\ pc \in {"it_exit", "tr_return", "returned"}
      /\ get_final_translation(context, heap) = FirstAttempt(i).final_before
      /\ pc \in {"tr_return", "returned"} =>
           /\ context.current_stage = "completed"
           /\ context.completed_at
           /\ exc = "none"

\* a run whose last stage was a failed polishing Optimizer has returned with
\* the output of an earlier fix cycle as its final translation
C23_Witness ==
  /\ pc = "returned"
  /\ Len(execs) > 0
  /\ PolishOptimizer(Len(execs))
  /\ execs[Len(execs)].failed
  /\ context.optimization_result # 0
  /\ get_final_translation(context, heap) = heap[context.optimization_result].output
  /\ get_final_translation(context, heap) # 0

\* C24: in iterative mode, once current_stage is 'optimizer' it stays
\* 'optimizer' for the rest of the run, and every stage execution that
\* completes from then on is a polishing Optimizer or a second review: the
\* Translator does not run again.
C24_OptimizeStageIsSticky ==
  [][(mode = "iterative" /\ current_stage = "optimizer") =>
       /\ current_stage' = "optimizer"
       /\ Len(execs') > Len(execs) =>
            /\ execs'[Len(execs')].key \in {"optimizer", "reviewer2"}
            /\ ~execs'[Len(execs')].fix]_vars

\* a second review that did not pass with a pass remaining was followed by
\* the Optimizer and the second Reviewer again, in the third pass
C24_Witness ==
  \E i \in 1..Len(execs) :
    /\ SecondReview(i)
    /\ ~execs[i].passed
    /\ execs[i].pass = 2
    /\ i + 2 <= Len(execs)
    /\ PolishOptimizer(i + 1)
    /\ SecondReview(i + 2)
    /\ execs[i + 2].pass = 3
    /\ pc = "returned"

\* execs[i] is an Optimizer execution in Fix mode (_execute_fix_mode)
FixOptimizer(i) ==
  /\ mode = "iterative"
  /\ execs[i].key = "optimizer"
  /\ execs[i].fix
  /\ execs[i].returned

\* execs[i] is the review that follows the fix (stage key 'reviewer_fix')
FixReview(i) ==
  mode = "iterative" /\ execs[i].key = "reviewer_fix" /\ execs[i].returned

\* C25: the fix cycle of iterative mode.  A first review that did not pass
\* with severity minor and a pass remaining is followed by the Optimizer in
\* Fix mode; a successful fix is followed by the fix review in the same pass;
\* after a passed fix review the next pass starts with the polishing
\* Optimizer; after a fix review that did not pass or failed, or a failed
\* fix, the next pass starts with the Translator.
C25_FixCycleRouting ==
  \A i \in 1..(Len(execs) - 1) :
    LET next == execs[i + 1]
    IN  /\ (FirstReview(i) /\ ~execs[i].passed
              /\ execs[i].score >= MINOR_SCORE
              /\ "optimizer" \in agents) =>
             /\ next.key = "optimizer"
             /\ next.fix
             /\ next.pass = execs[i].pass
        /\ FixOptimizer(i) =>
             IF execs[i].failed
               THEN next.key = "translator" /\ next.pass = execs[i].pass + 1
               ELSE next.key = "reviewer_fix" /\ next.pass = execs[i].pass
        /\ FixReview(i) =>
             /\ next.pass = execs[i].pass + 1
             /\ IF execs[i].passed /\ ~execs[i].failed
                  THEN next.key = "optimizer" /\ ~next.fix
                  ELSE next.key = "translator"

\* a fix cycle whose review passed was followed, in the next pass, by the
\* polishing Optimizer
C25_Witness ==
  \E i \in 1..(Len(execs) - 1) :
    /\ i > 1
    /\ FixOptimizer(i - 1)
    /\ FixReview(i)
    /\ execs[i].passed
    /\ PolishOptimizer(i + 1)
    /\ execs[i + 1].pass = execs[i].pass + 1

\* C26: the fix review never overwrites the first review: whenever a fix
\* review has returned, context.review_result is still the result object of
\* the first Reviewer execution of that pass.
C26_FixReviewKeepsFirstReview ==
  \A i \in 1..Len(execs) :
    (FixReview(i) /\ i = Len(execs)) =>
      \E j \in 1..(i - 1) :
        /\ FirstReview(j)
        /\ execs[j].pass = execs[i].pass
        /\ context.review_result = execs[j].rid

\* C27: every review result the orchestrator routes on has
\* passed = (score >= pass_threshold).
C27_PassedIsScoreAtThreshold ==
  \A i \in 1..Len(execs) :
    (execs[i].agent = "reviewer" /\ execs[i].returned) =>
      (execs[i].passed <=> execs[i].score >= pass_threshold)

\* C28: with pass_threshold = 80 the 'minor' severity branch is never taken:
\* no 'smart_routing' event is emitted and no Optimizer execution, in either
\* mode, runs in Fix mode.
C28_MinorBranchUnreachable ==
  pass_threshold = DEFAULT_PASS_THRESHOLD =>
    /\ ~HasEvent(<<"flow_control", "smart_routing">>)
    /\ \A i \in 1..Len(execs) :
         ~(execs[i].agent = "optimizer" /\ execs[i].fix)

\* the stage execution that ended just before the execution execs[i] ends began
Preceding(i) == execs[i - execs[i].attempts]

\* C29: every Reviewer execution evaluates the most recent output of the run:
\* a second review and a fix review read the output of the Optimizer
\* execution that preceded them, a first review the output of the Translator
\* execution that preceded it.
C29_ReviewReadsLatestOutput ==
  \A i \in 1..Len(execs) :
    (/\ execs[i].agent = "reviewer"
     /\ i > execs[i].attempts
     /\ ~Preceding(i).failed
     /\ Preceding(i).agent = IF execs[i].key = "reviewer" THEN "translator"
                             ELSE "optimizer") =>
      execs[i].input = heap[Preceding(i).rid].output

\* position of a stage in the fixed order of execute_pipeline
StageOrder == <<"source_analyzer", "translator", "reviewer", "optimizer",
                "reviewer2">>

StageRank(key) == CHOOSE k \in 1..Len(StageOrder) : StageOrder[k] = key

\* C30: in pipeline mode the stages execute in the order Analyzer,
\* Translator, first Reviewer, Optimizer, second Reviewer, each at most once
\* (so the Translator never runs twice), and a first review with passed and
\* score >= 90 is the last stage execution of a run that is marked completed,
\* with the Optimizer and the second Reviewer reported as skipped.
C30_PipelineOrder ==
  mode = "pipeline" =>
    /\ \A i \in 1..Len(execs) : execs[i].key \in {StageOrder[k] : k \in 1..5}
    /\ \A i, j \in 1..Len(execs) :
         (i < j /\ execs[i].returned) =>
           StageRank(execs[i].key) < StageRank(execs[j].key)
    /\ \A i \in 1..Len(execs) :
         (/\ execs[i].key = "reviewer"
          /\ execs[i].returned
          /\ execs[i].passed
          /\ execs[i].score >= SKIP_SCORE
          /\ ~(i = Len(execs) /\ pc = "pl_after_review")) =>
           /\ i = Len(execs)
           /\ pc \in {"tr_return", "returned"}
           /\ context.current_stage = "completed"
           /\ HasEvent(<<"optimizer", "skipped">>)
           /\ HasEvent(<<"reviewer2", "skipped">>)
           /\ events[Len(events)] = <<"pipeline", "completed">>

\* a pipeline run that executed all five stages, once each, has returned
C30_Witness ==
  /\ mode = "pipeline"
  /\ pc = "returned"
  /\ Len(execs) = 5
  /\ \A k \in 1..5 : execs[k].key = StageOrder[k] /\ execs[k].returned
  /\ execs[3].score < SKIP_SCORE

\* ---------------------------------------------------------------- C31 .. C39
\* some completed stage execution with one of the keys ended with status failed
FailedStage(keys) ==
  \E i \in 1..Len(execs) :
    execs[i].returned /\ execs[i].failed /\ execs[i].key \in keys

\* C31: a pipeline-mode run that has returned carries the 'failed' marker
\* exactly when the Analyzer or the Translator failed; a run in which the
\* Optimizer or the second Reviewer failed is marked completed.
C31_PipelineFailureOnlyAnalyzeTranslate ==
  (mode = "pipeline" /\ pc \in {"tr_return", "returned"}) =>
    /\ context.current_stage = "failed"
         <=> FailedStage({"source_analyzer", "translator"})
    /\ FailedStage({"optimizer", "reviewer2"}) =>
         context.current_stage = "completed"

\* the flag context._fix_mode is in effect (present and true), as every
\* reader tests it: hasattr(context, '_fix_mode') and context._fix_mode
FixModeOn == context.fix_mode = "true"

\* C32: the fix-mode flag is in effect only around an Optimizer call that
\* follows a first review which did not pass with severity minor (the fix
\* cycle in iterative mode, the one Optimizer call in pipeline mode); every
\* other stage execution, and every polishing Optimizer execution of the
\* Optimize phase, runs with the flag off, and the flag is off when the run
\* has ended.
C32_FixModeOnlyAroundFixCall ==
  /\ FixModeOn =>
       /\ es.agent = "optimizer"
       /\ pc \in {"es_start", "es_attempt", "fix_after_optimize",
                  "pl_after_optimize"}
  /\ pc \in {"it_exit", "tr_except", "tr_return", "returned", "raised"}
       => ~FixModeOn
  /\ \A i \in 1..Len(execs) :
       execs[i].fix <=>
         /\ execs[i].agent = "optimizer"
         /\ i > execs[i].attempts
         /\ Preceding(i).key = "reviewer"
         /\ Preceding(i).returned
         /\ ~Preceding(i).failed
         /\ ~Preceding(i).passed
         /\ Preceding(i).score >= MINOR_SCORE
         /\ mode = "iterative" => Preceding(i).pass = execs[i].pass

\* a run with a fix cycle in its first pass and a polishing Optimizer
\* execution in its second has ended with the flag off
C32_Witness ==
  /\ pc = "returned"
  /\ ~FixModeOn
  /\ \E i, j \in 1..Len(execs) :
       /\ i < j
       /\ FixOptimizer(i)
       /\ PolishOptimizer(j)

\* the completed Analyzer executions recorded so far
AnalyzerExecs ==
  { i \in 1..Len(execs) : execs[i].key = "source_analyzer" /\ execs[i].returned }

\* the iterative run has reached its loop (or has left it)
PastAnalysis ==
  /\ mode = "iterative"
  /\ pc \in {"it_loop_top", "it_stage", "it_after_translate", "it_after_review",
             "fix_after_optimize", "fix_after_review", "it_optimize",
             "it_after_optimize", "it_after_review2", "it_exit", "tr_return",
             "returned"}

\* C33 as stated: every iterative run executes the Analyzer exactly once,
\* as its first stage execution
C33_AnalyzerExactlyOnce ==
  PastAnalysis => AnalyzerExecs = {1}

\* C33 amended: an iterative run whose Analyzer is enabled executes it
\* exactly once, as the first stage execution of the run (before the first
\* loop pass and before any Translator execution); a run whose Analyzer is
\* not enabled never executes it.
C33_AnalyzerOnceWhenEnabled ==
  /\ mode = "iterative" => \A i \in AnalyzerExecs : i = 1 /\ execs[i].pass = 0
  /\ PastAnalysis =>
       AnalyzerExecs = IF "source_analyzer" \in agents THEN {1} ELSE {}

\* a two-pass run with the Analyzer enabled has returned, the Translator
\* having run in both passes
C33_Witness ==
  /\ mode = "iterative"
  /\ pc = "returned"
  /\ "source_analyzer" \in agents
  /\ AnalyzerExecs = {1}
  /\ \E i, j \in 1..Len(execs) :
       /\ i < j
       /\ execs[i].key = "translator" /\ execs[i].pass = 1
       /\ execs[j].key = "translator" /\ execs[j].pass = 2

\* C34: a review result keeps the score and the passed flag it was returned
\* with: for every completed Reviewer execution the result object still
\* carries the values recorded when it was returned.
C34_ReviewResultImmutable ==
  \A i \in 1..Len(execs) :
    (execs[i].agent = "reviewer" /\ execs[i].returned /\ execs[i].rid # 0) =>
      /\ ScoreOf(heap, execs[i].rid) = execs[i].score
      /\ check_review_passed(heap, execs[i].rid) = execs[i].passed

\* C35: the events one execute_single call emits are one 'retrying' per
\* attempt that was followed by another attempt and exactly one terminal
\* event: 'completed' when the returned result is a success, 'failed' when it
\* is a failure.
C35_StageEventProtocol ==
  \A i \in 1..Len(execs) :
    execs[i].returned =>
      /\ execs[i].nRetrying = execs[i].attempts - 1
      /\ execs[i].nCompleted + execs[i].nFailed = 1
      /\ execs[i].nFailed = 1 <=> execs[i].failed

\* C36: execute_single emits 'completed' only for a result whose status is
\* completed: a returned result with status failed was announced by 'failed'
\* and not by 'completed'.
C36_CompletedEventMeansCompleted ==
  \A i \in 1..Len(execs) :
    (execs[i].returned /\ execs[i].nCompleted > 0) => ~execs[i].failed

\* C37: a stop request affects only the run it was issued for: a run whose
\* own worker was not asked to stop is never cancelled at a checkpoint.
C37_StopDoesNotOutliveItsRun ==
  pc = "tr_except" => worker_stop

\* the client calls of the current (or last) _call_llm invocation
CallsOfInvocation == SubSeq(llm.log, llm.start + 1, Len(llm.log))

\* C38: one _call_llm invocation makes at most max_retries client calls;
\* when it has returned, its last call succeeded and all its earlier calls
\* failed; when it has raised, it made max_retries calls and all failed;
\* each of its attempts used the client after the previous attempt's.
C38_CallLLMRetryBudget ==
  LET calls == CallsOfInvocation
  IN  /\ Len(calls) <= MAX_RETRIES
      /\ \A k \in 1..(Len(calls) - 1) :
           /\ ~calls[k].ok
           /\ calls[k + 1].client = (calls[k].client + 1) % llm.n
      /\ llm.phase = "returned" => Len(calls) >= 1 /\ calls[Len(calls)].ok
      /\ llm.phase = "raised" =>
           /\ Len(calls) = MAX_RETRIES
           /\ \A k \in 1..Len(calls) : ~calls[k].ok
      /\ llm.phase = "calling" =>
           /\ Len(calls) = llm.attempt
           /\ \A k \in 1..Len(calls) : ~calls[k].ok

\* a second invocation raised after three failed calls on a pool of two
C38_Witness ==
  /\ llm.phase = "raised"
  /\ llm.n = 2
  /\ llm.start > 0
  /\ Len(llm.log) = llm.start + MAX_RETRIES

\* C39: client selection is round-robin: the index stays within 0..n-1,
\* successive selections follow the cyclic order, and any n consecutive
\* selections pick each of the n clients exactly once.
C39_RoundRobin ==
  /\ llm.idx \in 0..(llm.n - 1)
  /\ \A k \in 1..Len(llm.log) : llm.log[k].client \in 0..(llm.n - 1)
  /\ \A k \in 1..(Len(llm.log) - 1) :
       llm.log[k + 1].client = (llm.log[k].client + 1) % llm.n
  /\ \A k \in 1..(Len(llm.log) - llm.n + 1) :
       { llm.log[j].client : j \in k..(k + llm.n - 1) } = 0..(llm.n - 1)

\* a pool of three has been walked round more than once
C39_Witness ==
  /\ llm.n = MaxClients
  /\ Len(llm.log) > llm.n
  /\ llm.log[llm.n + 1].client = 0
  /\ llm.log[llm.n].client = llm.n - 1

====
